---- MODULE Spec2Model ----
(***************************************************************************)
(* Model of undeny.py: removal of an IP address from the denyhosts files.  *)
(*                                                                         *)
(* A file's content is a flat sequence of one-character strings, so that   *)
(* splitting into lines, filtering and writing back are modelled by what   *)
(* they do to the bytes.  Every statement of delete_from_file that touches *)
(* the file system is one step; a step that can raise has a failing        *)
(* outcome.                                                                *)
(*                                                                         *)
(* Spec    : one run of main() over the list of denyhosts files.           *)
(* SpecSan : delete_from_file called repeatedly on one path.               *)
(***************************************************************************)
EXTENDS Integers, Sequences, FiniteSets, TLC

VARIABLES
    pc,         \* position of main(): "euid", "argc", ..., "done"
    spc,        \* position inside delete_from_file
    hosts,      \* the denyhosts files: path -> [exists, content, mode]
    orig,       \* the "_orig" copies: path -> [exists, content, mode]
    temp_file,  \* the NamedTemporaryFile of the current call
    host_file,  \* parameter host_file of the current call (index in the list)
    ip,         \* sys.argv[1] / parameter ip
    lineno,     \* next line the read loop will look at
    status,     \* local variable status of delete_from_file
    exc,        \* exception pending in delete_from_file, or "none"
    cmds,       \* service commands issued so far: <<[action, rc], ...>>
    log,        \* the messages written to LOGFILE (level INFO and above)
    fault,      \* history: the step of the current call that failed
    pre,        \* history: target and backup when the current call began
    prev,       \* history: ip and outcome of the call before the current one
    calls,      \* history: the paths delete_from_file was called on
    init,       \* history: the denyhosts files when the run began
    ncalls,     \* history: number of calls of delete_from_file so far
    abort,      \* history: the check of main() that ended the run, or "none"
    svc,        \* history: the last call of denyhosts_action and its result
    parked      \* the locals of the other instance of SpecConc, and history

vars == <<pc, spc, hosts, orig, temp_file, host_file, ip, lineno, status,
          exc, cmds, log, fault, pre, prev, calls, init, ncalls, abort, svc,
          parked>>

----------------------------------------------------------------------------
(* Bounds *)

NumFiles == 3       \* length of the list denyhosts_files in the model
MainLines == 1      \* most lines of an initial file under Spec
SanFileLen == 3     \* longest initial file content under SpecSan
MaxArgLen == 3      \* longest ip argument of delete_from_file
MainArgLen == 1     \* longest command-line argument given to main()
MaxCalls == 2       \* calls of delete_from_file under SpecSan
MaxSvcCalls == 3    \* service commands run under SpecSvc

(* Program constants *)

Mode0644 == 420     \* os.chmod(host_file, 0644)
Mode0600 == 384     \* mode of a NamedTemporaryFile

NL == "\n"
Digits == {"1"}
Alphabet == Digits \cup {"."}
ExitCodes == {0, 1}

denyhosts_files == [i \in 1..NumFiles |-> i]

----------------------------------------------------------------------------
(* Strings *)

SeqsUpTo(S, n) == UNION {[1..k -> S] : k \in 0..n}

ProperPrefixes(s) == {SubSeq(s, 1, n) : n \in 0..(Len(s) - 1)}

\* Position of the first occurrence of c in s at or after i, 0 if none.
RECURSIVE IndexFrom(_, _, _)
IndexFrom(s, c, i) ==
    IF i > Len(s) THEN 0
    ELSE IF s[i] = c THEN i
    ELSE IndexFrom(s, c, i + 1)

\* "for line in fp": the lines of a file, each with its terminator; the last
\* line has none when the file does not end with a newline.
RECURSIVE SplitLines(_)
SplitLines(s) ==
    IF s = <<>> THEN <<>>
    ELSE LET i == IndexFrom(s, NL, 1) IN
         IF i = 0 THEN <<s>>
         ELSE <<SubSeq(s, 1, i)>> \o SplitLines(SubSeq(s, i + 1, Len(s)))

\* One pattern character against one character: "." is the regular
\* expression wildcard (any character but a newline), a digit is itself.
re_char(p, c) == IF p = "." THEN c # NL ELSE p = c

re_match_at(pattern, line, start) ==
    /\ start + Len(pattern) - 1 <= Len(line)
    /\ \A j \in 1..Len(pattern) : re_char(pattern[j], line[start + j - 1])

\* re.search(ip, line) for a pattern of digits and dots.
re_search(pattern, line) ==
    \E start \in 1..(Len(line) + 1) : re_match_at(pattern, line, start)

\* The parts of an address between its dots.
RECURSIVE SplitDots(_)
SplitDots(s) ==
    LET i == IndexFrom(s, ".", 1) IN
    IF i = 0 THEN <<s>>
    ELSE <<SubSeq(s, 1, i - 1)>> \o SplitDots(SubSeq(s, i + 1, Len(s)))

DigitVal(c) == IF c = "1" THEN 1 ELSE 9

RECURSIVE DecVal(_)
DecVal(s) ==
    IF s = <<>> THEN 0
    ELSE 10 * DecVal(SubSeq(s, 1, Len(s) - 1)) + DigitVal(s[Len(s)])

\* Largest value of the last part of an address of n parts (n = 2, 3, 4);
\* a single part may be any 32-bit value.
LastPartMax(n) == IF n = 2 THEN 16777215 ELSE IF n = 3 THEN 65535 ELSE 255

\* socket.inet_aton(address) does not raise: one to four non-empty decimal
\* parts, every part before a dot at most 255, the last part within the
\* range left to it.
check_valid_ip(address) ==
    LET parts == SplitDots(address)
        n == Len(parts)
    IN  /\ n \in 1..4
        /\ \A k \in 1..n :
              /\ parts[k] # <<>>
              /\ \A j \in 1..Len(parts[k]) : parts[k][j] \in {"1", "9"}
              /\ Len(parts[k]) <= 9
        /\ \A k \in 1..(n - 1) : DecVal(parts[k]) <= 255
        /\ n > 1 => DecVal(parts[n]) <= LastPartMax(n)

\* "999.999.999.999"
Addr999 ==
    <<"9", "9", "9", ".", "9", "9", "9", ".", "9", "9", "9", ".", "9", "9", "9">>

Args == (SeqsUpTo(Alphabet, MaxArgLen) \ {<<>>}) \cup {Addr999}

\* sys.argv[1] as main() receives it.
MainArgs == {a \in Args : Len(a) <= MainArgLen} \cup {Addr999}

Needles == {a \in Args : check_valid_ip(a)}

Contents(n) == SeqsUpTo(Alphabet \cup {NL}, n)

\* Concatenation of a sequence of lines.
RECURSIVE Join(_)
Join(lines) == IF lines = <<>> THEN <<>> ELSE Head(lines) \o Join(Tail(lines))

\* Files of at most MainLines terminated lines of one character.
MainContents ==
    {Join(ls) : ls \in SeqsUpTo({<<c, NL>> : c \in Alphabet}, MainLines)}

(* Files *)

NoFile == [exists |-> FALSE, content |-> <<>>, mode |-> 0]

File(c, m) == [exists |-> TRUE, content |-> c, mode |-> m]

NoTemp == [bound |-> FALSE, exists |-> FALSE, content |-> <<>>]

NoCall == [ip |-> <<>>, path |-> 0, status |-> FALSE, ended |-> "none"]

NoService == [action |-> "none", rc |-> 0, before |-> 0, status |-> FALSE]

NoInstance == [used |-> FALSE]

----------------------------------------------------------------------------
(* delete_from_file(host_file, ip) *)

Target == hosts[host_file]

Backup == orig[host_file]

\* Entry of delete_from_file: status = False, nothing else yet.
Call(path, address) ==
    /\ host_file' = path
    /\ ip' = address
    /\ spc' = "mktemp"
    /\ status' = FALSE
    /\ temp_file' = NoTemp
    /\ exc' = "none"
    /\ lineno' = 1
    /\ fault' = "none"
    /\ pre' = [target |-> hosts[path], backup |-> orig[path]]
    /\ prev' = IF calls = {} THEN NoCall
               ELSE [ip |-> ip, path |-> host_file, status |-> status,
                     ended |-> spc]
    /\ calls' = calls \cup {path}
    /\ ncalls' = ncalls + 1

\* Opening for writing without truncation: the content is kept.
OpenNoTruncate(f) ==
    IF f.exists THEN f ELSE File(<<>>, Mode0644)

\* open(name, 'wb') on an existing or a missing file: the file is empty
\* afterwards; a file that had to be created gets the default mode.
OpenForWrite(f) ==
    File(<<>>, IF f.exists THEN f.mode ELSE Mode0644)

\* A file after data was written at its start through a freshly opened
\* descriptor: the data, then what the file held beyond it.
Overlay(old, data) == data \o SubSeq(old, Len(data) + 1, Len(old))

\* A read loop that writes a newline of its own after every kept line.
WriteLineExtraNL(written, pattern, line) ==
    IF re_search(pattern, line) THEN written ELSE written \o line \o <<NL>>

\* A read loop that writes every line, matching or not.
WriteLineKeepAll(written, pattern, line) == written \o line

\* What the read loop leaves in the temp file after one line.
WriteLine(written, pattern, line) ==
    IF re_search(pattern, line) THEN written ELSE written \o line

\* An except branch that closes the temp file and leaves it on disk.
ExceptNoRemove(t) == t

\* The except branch: temp_file.close(); os.remove(temp_file.name).
ExceptCleanup(t) == [t EXCEPT !.exists = FALSE]

\* A backup taken from the temp file instead of the target.
BackupFromTemp == temp_file.content

\* First argument of the first shutil.copy: the content that is backed up.
BackupSource == Target.content

\* temp_file = tempfile.NamedTemporaryFile(delete=False)
S_mktemp ==
    /\ spc = "mktemp"
    /\ \/ /\ temp_file' = [bound |-> TRUE, exists |-> TRUE, content |-> <<>>]
          /\ spc' = "open"
          /\ UNCHANGED <<exc, fault>>
       \/ /\ fault' = "mktemp"
          /\ \/ exc' = "IOError" /\ spc' = "except"
             \/ exc' = "OSError" /\ spc' = "finally"
          /\ UNCHANGED temp_file
    /\ UNCHANGED <<pc, hosts, orig, host_file, ip, lineno, status, cmds, log,
                   pre, prev, calls, init, ncalls,
                   abort, svc, parked>>

\* with open(host_file, 'r') as fp
S_open ==
    /\ spc = "open"
    /\ IF Target.exists
         THEN spc' = "read" /\ lineno' = 1 /\ UNCHANGED <<exc, fault>>
         ELSE /\ spc' = "except"
              /\ exc' = "IOError"
              /\ fault' = "open"
              /\ UNCHANGED lineno
    /\ UNCHANGED <<pc, hosts, orig, temp_file, host_file, ip, status, cmds,
                   log, pre, prev, calls, init, ncalls,
                   abort, svc, parked>>

\* for line in fp: one iteration, the end of the loop, or an IOError while
\* reading the file or writing the temp file.
S_read ==
    /\ spc = "read"
    /\ LET lines == SplitLines(Target.content) IN
       \/ /\ lineno <= Len(lines)
          /\ temp_file' = [temp_file EXCEPT
                 !.content = WriteLine(@, ip, lines[lineno])]
          /\ lineno' = lineno + 1
          /\ UNCHANGED <<spc, exc, fault>>
       \/ /\ lineno > Len(lines)
          /\ spc' = "close"
          /\ UNCHANGED <<temp_file, lineno, exc, fault>>
       \/ /\ lineno <= Len(lines)
          /\ spc' = "except"
          /\ exc' = "IOError"
          /\ fault' = "read"
          /\ UNCHANGED <<temp_file, lineno>>
    /\ UNCHANGED <<pc, hosts, orig, host_file, ip, status, cmds, log, pre,
                   prev, calls, init, ncalls,
                   abort, svc, parked>>

\* except IOError: print, log, close and remove the temp file.  When the
\* temp file was never created its name is unbound and the branch raises.
S_except ==
    /\ spc = "except"
    /\ log' = log \cup {"could_not_be_opened"}
    /\ IF temp_file.bound
         THEN /\ temp_file' = ExceptCleanup(temp_file)
              /\ status' = FALSE
              /\ exc' = "none"
         ELSE /\ exc' = "UnboundLocalError"
              /\ UNCHANGED <<temp_file, status>>
    /\ spc' = "finally"
    /\ UNCHANGED <<pc, hosts, orig, host_file, ip, lineno, cmds, fault, pre,
                   prev, calls, init, ncalls,
                   abort, svc, parked>>

\* else: temp_file.close() flushes what the loop wrote.
S_close ==
    /\ spc = "close"
    /\ \/ spc' = "backup_open" /\ UNCHANGED <<exc, fault>>
       \/ spc' = "finally" /\ exc' = "IOError" /\ fault' = "close"
    /\ UNCHANGED <<pc, hosts, orig, temp_file, host_file, ip, lineno, status,
                   cmds, log, pre, prev, calls, init, ncalls,
                   abort, svc, parked>>

\* shutil.copy(host_file, host_file + '_orig'): opening the destination.
S_backup_open ==
    /\ spc = "backup_open"
    /\ \/ /\ orig' = [orig EXCEPT ![host_file] = OpenForWrite(@)]
          /\ spc' = "backup_write"
          /\ UNCHANGED <<exc, fault>>
       \/ /\ spc' = "finally"
          /\ exc' = "IOError"
          /\ fault' = "backup_open"
          /\ UNCHANGED orig
    /\ UNCHANGED <<pc, hosts, temp_file, host_file, ip, lineno, status, cmds,
                   log, pre, prev, calls, init, ncalls,
                   abort, svc, parked>>

\* shutil.copy(host_file, host_file + '_orig'): the data, then the mode.
S_backup_write ==
    /\ spc = "backup_write"
    /\ \/ /\ orig' = [orig EXCEPT
                 ![host_file] = File(Overlay(Backup.content, BackupSource),
                                     Target.mode)]
          /\ spc' = "replace_open"
          /\ UNCHANGED <<exc, fault>>
       \/ /\ \E part \in ProperPrefixes(BackupSource) :
                orig' = [orig EXCEPT
                    ![host_file].content = Overlay(Backup.content, part)]
          /\ spc' = "finally"
          /\ exc' = "IOError"
          /\ fault' = "backup_write"
    /\ UNCHANGED <<pc, hosts, temp_file, host_file, ip, lineno, status, cmds,
                   log, pre, prev, calls, init, ncalls,
                   abort, svc, parked>>

\* shutil.copy(temp_file.name, host_file): opening the destination.
S_replace_open ==
    /\ spc = "replace_open"
    /\ \/ /\ hosts' = [hosts EXCEPT ![host_file] = OpenForWrite(@)]
          /\ spc' = "replace_write"
          /\ UNCHANGED <<exc, fault>>
       \/ /\ spc' = "finally"
          /\ exc' = "IOError"
          /\ fault' = "replace_open"
          /\ UNCHANGED hosts
    /\ UNCHANGED <<pc, orig, temp_file, host_file, ip, lineno, status, cmds,
                   log, pre, prev, calls, init, ncalls,
                   abort, svc, parked>>

\* shutil.copy(temp_file.name, host_file): the data, then the mode of the
\* temp file.
S_replace_write ==
    /\ spc = "replace_write"
    /\ \/ /\ hosts' = [hosts EXCEPT
                 ![host_file] = File(Overlay(Target.content, temp_file.content),
                                     Mode0600)]
          /\ spc' = "chmod"
          /\ UNCHANGED <<exc, fault>>
       \/ /\ \E part \in ProperPrefixes(temp_file.content) :
                hosts' = [hosts EXCEPT
                    ![host_file].content = Overlay(Target.content, part)]
          /\ spc' = "finally"
          /\ exc' = "IOError"
          /\ fault' = "replace_write"
    /\ UNCHANGED <<pc, orig, temp_file, host_file, ip, lineno, status, cmds,
                   log, pre, prev, calls, init, ncalls,
                   abort, svc, parked>>

\* A chmod that is left out: the file keeps the mode the copy gave it.
ChmodSkipped(f, m) == f

\* os.chmod(name, m)
Chmod(f, m) == [f EXCEPT !.mode = m]

\* os.chmod(host_file, 0644)
S_chmod ==
    /\ spc = "chmod"
    /\ \/ /\ hosts' = [hosts EXCEPT ![host_file] = Chmod(@, Mode0644)]
          /\ spc' = "remove"
          /\ UNCHANGED <<exc, fault>>
       \/ /\ spc' = "finally"
          /\ exc' = "OSError"
          /\ fault' = "chmod"
          /\ UNCHANGED hosts
    /\ UNCHANGED <<pc, orig, temp_file, host_file, ip, lineno, status, cmds,
                   log, pre, prev, calls, init, ncalls,
                   abort, svc, parked>>

\* os.remove(temp_file.name); status = True
S_remove ==
    /\ spc = "remove"
    /\ temp_file' = [temp_file EXCEPT !.exists = FALSE]
    /\ status' = TRUE
    /\ spc' = "finally"
    /\ UNCHANGED <<pc, hosts, orig, host_file, ip, lineno, exc, cmds, log,
                   fault, pre, prev, calls, init, ncalls,
                   abort, svc, parked>>

\* finally: temp_file.close(); then return status, or the pending
\* exception leaves the function.
S_finally ==
    /\ spc = "finally"
    /\ exc' = IF temp_file.bound THEN exc ELSE "UnboundLocalError"
    /\ spc' = IF exc' = "none" THEN "returned" ELSE "raised"
    /\ UNCHANGED <<pc, hosts, orig, temp_file, host_file, ip, lineno, status,
                   cmds, log, fault, pre, prev, calls, init, ncalls,
                   abort, svc, parked>>

delete_from_file ==
    \/ S_mktemp \/ S_open \/ S_read \/ S_except \/ S_close
    \/ S_backup_open \/ S_backup_write \/ S_replace_open \/ S_replace_write
    \/ S_chmod \/ S_remove \/ S_finally

----------------------------------------------------------------------------
(* denyhosts_action(action) and main() *)

\* A denyhosts_action that reports success whatever the exit status.
denyhosts_action_ignoring_rc(action, rc) ==
    IF action # "start" /\ action # "stop"
      THEN [ran |-> FALSE, status |-> FALSE]
      ELSE [ran |-> TRUE, status |-> TRUE]

\* denyhosts_action: whether the service command is run, and the value
\* returned when it exits with rc.
denyhosts_action(action, rc) ==
    IF action # "start" /\ action # "stop"
      THEN [ran |-> FALSE, status |-> FALSE]
      ELSE [ran |-> TRUE, status |-> (rc = 0)]

\* The effect of a call of denyhosts_action on the command history and the
\* log.
ServiceCall(action, rc) ==
    LET r == denyhosts_action(action, rc) IN
    /\ cmds' = IF r.ran THEN Append(cmds, [action |-> action, rc |-> rc])
               ELSE cmds
    /\ log' = IF r.ran /\ ~r.status THEN log \cup {action \o "_failure"}
              ELSE log
    /\ svc' = [action |-> action, rc |-> rc, before |-> Len(cmds),
               status |-> r.status]

\* A stop failure that is reported and ignored.
AfterStopNoExit(ok) == "loop"

\* if not denyhosts_action('stop'): sys.exit()
AfterStop(ok) == IF ok THEN "loop" ELSE "exit"

\* A loop that logs the failure and goes on to the next file.
AfterFileNoBreak(ok, more) == IF more THEN "loop" ELSE "start"

\* The for loop after delete_from_file returned ok: the next file, or the
\* break / the end of the list.
AfterFile(ok, more) == IF ok /\ more THEN "loop" ELSE "start"

\* A check of main() whose failure is reported and ignored.
AfterCheckNoExit(ok, next) == next

\* The checks at the top of main(): usage(), a message and sys.exit()
\* when the check fails, the next statement otherwise.
AfterCheck(ok, next) == IF ok THEN next ELSE "exit"

\* What ended the run: the failed check, or nothing.
Aborted(ok, check) == IF ok THEN abort ELSE check

\* if os.geteuid() != 0: usage(); sys.exit()
M_euid ==
    /\ pc = "euid"
    /\ \E uid \in {0, 1000} :
          /\ pc' = AfterCheck(uid = 0, "argc")
          /\ abort' = Aborted(uid = 0, "euid")
    /\ UNCHANGED <<spc, hosts, orig, temp_file, host_file, ip, lineno, status,
                   exc, cmds, log, fault, pre, prev, calls, init, ncalls,
                   svc, parked>>

\* if len(sys.argv) <> 2: usage(); sys.exit()
M_argc ==
    /\ pc = "argc"
    /\ \E n \in 1..3 :
          /\ pc' = AfterCheck(n = 2, "checkip")
          /\ abort' = Aborted(n = 2, "argc")
    /\ UNCHANGED <<spc, hosts, orig, temp_file, host_file, ip, lineno, status,
                   exc, cmds, log, fault, pre, prev, calls, init, ncalls,
                   svc, parked>>

\* ip = sys.argv[1]; if not check_valid_ip(ip): usage(); sys.exit()
M_checkip ==
    /\ pc = "checkip"
    /\ \E a \in MainArgs :
          /\ ip' = a
          /\ pc' = AfterCheck(check_valid_ip(a), "logging")
          /\ abort' = Aborted(check_valid_ip(a), "ip")
    /\ UNCHANGED <<spc, hosts, orig, temp_file, host_file, lineno, status,
                   exc, cmds, log, fault, pre, prev, calls, init, ncalls,
                   svc, parked>>

\* logging.basicConfig(...) and the line "deleting <ip>", or sys.exit()
\* when LOGFILE cannot be opened.
M_logging ==
    /\ pc = "logging"
    /\ \E opened \in BOOLEAN :
          /\ pc' = AfterCheck(opened, "stop")
          /\ abort' = Aborted(opened, "logfile")
          /\ log' = IF opened THEN log \cup {"deleting"} ELSE log
    /\ UNCHANGED <<spc, hosts, orig, temp_file, host_file, ip, lineno, status,
                   exc, cmds, fault, pre, prev, calls, init, ncalls,
                   svc, parked>>

\* if not denyhosts_action('stop'): sys.exit()
M_stop ==
    /\ pc = "stop"
    /\ \E rc \in ExitCodes :
          /\ ServiceCall("stop", rc)
          /\ pc' = AfterStop(denyhosts_action("stop", rc).status)
          /\ abort' = Aborted(denyhosts_action("stop", rc).status, "stop")
    /\ UNCHANGED <<spc, hosts, orig, temp_file, host_file, ip, lineno, status,
                   exc, fault, pre, prev, calls, init, ncalls,
                   parked>>

\* for host_file in denyhosts_files: delete_from_file(host_file, ip)
M_call ==
    /\ pc = "loop"
    /\ host_file < Len(denyhosts_files)
    /\ Call(denyhosts_files[host_file + 1], ip)
    /\ pc' = "in_call"
    /\ UNCHANGED <<hosts, orig, cmds, log, init, abort, svc, parked>>

\* if not delete_from_file(...): logging.error(...); break
M_return ==
    /\ pc = "in_call"
    /\ spc = "returned"
    /\ pc' = AfterFile(status, host_file < Len(denyhosts_files))
    /\ log' = IF status THEN log ELSE log \cup {"exiting_loop"}
    /\ UNCHANGED <<spc, hosts, orig, temp_file, host_file, ip, lineno, status,
                   exc, cmds, fault, pre, prev, calls, init, ncalls,
                   abort, svc, parked>>

\* An exception leaving delete_from_file is caught nowhere in main().
M_raise ==
    /\ pc = "in_call"
    /\ spc = "raised"
    /\ pc' = "crashed"
    /\ UNCHANGED <<spc, hosts, orig, temp_file, host_file, ip, lineno, status,
                   exc, cmds, log, fault, pre, prev, calls, init, ncalls,
                   abort, svc, parked>>

\* if not denyhosts_action('start'): print ...
M_start ==
    /\ pc = "start"
    /\ \E rc \in ExitCodes : ServiceCall("start", rc)
    /\ pc' = "done"
    /\ UNCHANGED <<spc, hosts, orig, temp_file, host_file, ip, lineno, status,
                   exc, fault, pre, prev, calls, init, ncalls,
                   abort, parked>>

main ==
    \/ M_euid \/ M_argc \/ M_checkip \/ M_logging \/ M_stop
    \/ M_call \/ M_return \/ M_raise \/ M_start

\* A caller of delete_from_file alone, on the first path of the list: it
\* calls again after a call that returned.
D_call ==
    /\ pc = "driver"
    /\ spc \in {"idle", "returned"}
    /\ ncalls < MaxCalls
    /\ \E a \in Needles : Call(1, a)
    /\ UNCHANGED <<pc, hosts, orig, cmds, log, init, abort, svc, parked>>

----------------------------------------------------------------------------
(* Specifications *)

InitCommon ==
    /\ spc = "idle"
    /\ temp_file = NoTemp
    /\ host_file = 0
    /\ ip = <<>>
    /\ lineno = 1
    /\ status = FALSE
    /\ exc = "none"
    /\ cmds = <<>>
    /\ log = {}
    /\ fault = "none"
    /\ pre = [target |-> NoFile, backup |-> NoFile]
    /\ prev = NoCall
    /\ calls = {}
    /\ init = hosts
    /\ ncalls = 0
    /\ abort = "none"
    /\ svc = NoService
    /\ parked = NoInstance

Init ==
    /\ pc = "euid"
    /\ hosts \in [1..NumFiles ->
           {NoFile} \cup {File(c, Mode0644) : c \in MainContents}]
    /\ orig = [i \in 1..NumFiles |-> NoFile]
    /\ InitCommon

Next == main \/ delete_from_file

Spec == Init /\ [][Next]_vars

InitSan ==
    /\ pc = "driver"
    /\ hosts \in [1..1 ->
           {NoFile} \cup {File(c, m) : c \in Contents(SanFileLen),
                                       m \in {Mode0644, Mode0600}}]
    /\ orig = [i \in 1..1 |-> NoFile]
    /\ InitCommon

NextSan == D_call \/ delete_from_file

SpecSan == InitSan /\ [][NextSan]_vars

\* The arguments denyhosts_action is called with on its own.
ServiceActions == {"start", "stop", "restart"}

\* A caller of denyhosts_action alone.
V_call ==
    /\ pc = "driver"
    /\ Len(cmds) < MaxSvcCalls
    /\ \E a \in ServiceActions, rc \in ExitCodes : ServiceCall(a, rc)
    /\ UNCHANGED <<pc, spc, hosts, orig, temp_file, host_file, ip, lineno,
                   status, exc, fault, pre, prev, calls, init, ncalls, abort,
                   parked>>

InitSvc ==
    /\ pc = "driver"
    /\ hosts = [i \in 1..1 |-> NoFile]
    /\ orig = [i \in 1..1 |-> NoFile]
    /\ InitCommon

NextSvc == V_call

SpecSvc == InitSvc /\ [][NextSvc]_vars

----------------------------------------------------------------------------
(* Two instances of the script on the same file *)

\* The local variables of the running instance inside delete_from_file.
Locals ==
    [spc |-> spc, temp_file |-> temp_file, ip |-> ip, lineno |-> lineno,
     status |-> status, exc |-> exc, fault |-> fault, pre |-> pre]

\* The steps between the first read of the target and the end of the copy
\* that replaces it.
MidRewrite ==
    {"read", "close", "backup_open", "backup_write", "replace_open",
     "replace_write"}

\* The operating system runs the other instance: nothing orders the
\* statements of two processes.  The instance that steps aside sees the
\* file as it is when it goes on.
Switch ==
    /\ parked.used
    /\ parked.loc.spc \notin {"returned", "raised"}
    /\ spc' = parked.loc.spc
    /\ temp_file' = parked.loc.temp_file
    /\ ip' = parked.loc.ip
    /\ lineno' = parked.loc.lineno
    /\ status' = parked.loc.status
    /\ exc' = parked.loc.exc
    /\ fault' = parked.loc.fault
    /\ pre' = parked.loc.pre
    /\ parked' = [used |-> TRUE, loc |-> Locals,
                  overlap |-> parked.overlap \/ spc \in MidRewrite]
    /\ UNCHANGED <<pc, hosts, orig, host_file, cmds, log, prev, calls, init,
                   ncalls, abort, svc>>

\* Both instances have just entered delete_from_file on the first path,
\* each with its own address.
InitConc ==
    /\ pc = "driver"
    /\ hosts \in [1..1 ->
           {NoFile} \cup {File(c, Mode0644) : c \in MainContents}]
    /\ orig = [i \in 1..1 |-> NoFile]
    /\ init = hosts
    /\ host_file = 1
    /\ calls = {1}
    /\ ncalls = 2
    /\ cmds = <<>>
    /\ log = {}
    /\ prev = NoCall
    /\ abort = "none"
    /\ svc = NoService
    /\ spc = "mktemp"
    /\ temp_file = NoTemp
    /\ lineno = 1
    /\ status = FALSE
    /\ exc = "none"
    /\ fault = "none"
    /\ pre = [target |-> hosts[1], backup |-> orig[1]]
    /\ \E a, b \in Needles :
          /\ a # b
          /\ ip = a
          /\ parked = [used |-> TRUE, overlap |-> FALSE,
                       loc |-> [spc |-> "mktemp", temp_file |-> NoTemp,
                                ip |-> b, lineno |-> 1, status |-> FALSE,
                                exc |-> "none", fault |-> "none",
                                pre |-> pre]]

NextConc == Switch \/ delete_from_file

SpecConc == InitConc /\ [][NextConc]_vars

----------------------------------------------------------------------------
(* Vocabulary of the properties *)

\* needle occurs in s as a substring.
Contains(needle, s) ==
    \E i \in 1..(Len(s) - Len(needle) + 1) :
       SubSeq(s, i, i + Len(needle) - 1) = needle

\* The lines of s that do not contain needle as a substring, in order.
LinesWithout(needle, s) ==
    SelectSeq(SplitLines(s), LAMBDA l : ~Contains(needle, l))

\* The content the read loop produces from s: the lines its test lets pass.
RECURSIVE FilterLines(_, _)
FilterLines(lines, pattern) ==
    IF lines = <<>> THEN <<>>
    ELSE WriteLine(<<>>, pattern, Head(lines))
            \o FilterLines(Tail(lines), pattern)

Filtered(s, pattern) == FilterLines(SplitLines(s), pattern)

Issued(action) == \E i \in 1..Len(cmds) : cmds[i].action = action

StopFailed == \E i \in 1..Len(cmds) : cmds[i].action = "stop" /\ cmds[i].rc # 0

StopSucceeded ==
    \E i \in 1..Len(cmds) : cmds[i].action = "stop" /\ cmds[i].rc = 0

RunEnded == pc \in {"exit", "done", "crashed"}

CallEnded == spc \in {"returned", "raised"}

ReturnedTrue == spc = "returned" /\ status

\* delete_from_file failed on the file at position k of the list.
FailedAt(k) == host_file = k /\ CallEnded /\ ~status

----------------------------------------------------------------------------
(* Properties *)

\* C1: when the 'stop' command reports failure the run aborts: no target
\* file and no backup is created or modified, delete_from_file is never
\* called and 'start' is never issued.
C1_StopFailureAborts ==
    StopFailed =>
        /\ pc = "exit"
        /\ hosts = init
        /\ \A i \in DOMAIN orig : orig[i] = NoFile
        /\ calls = {}
        /\ temp_file = NoTemp
        /\ ~Issued("start")

C1_Witness == StopFailed /\ pc = "exit" /\ \E i \in DOMAIN init : init[i].exists

\* C2: a run whose 'stop' command succeeded has issued 'start' by the time
\* it ends, whether every file succeeded or delete_from_file failed at its
\* open, its read loop, its backup copy, its replace copy or its chmod.
C2_StartAlwaysIssued ==
    (RunEnded /\ StopSucceeded
        /\ fault \in {"none", "open", "read", "backup_open", "backup_write",
                      "replace_open", "replace_write", "chmod"})
        => Issued("start")

\* C3: the files are processed in list order; once delete_from_file has
\* failed on the file at position k the loop goes on to no other file, every
\* file after k is untouched (content, backup, never called), and every file
\* before k has been rewritten without its matching lines.
C3_StopOnFirstFailure ==
    /\ calls = 1..host_file
    /\ \A k \in 1..NumFiles :
          FailedAt(k) =>
             /\ pc \in {"in_call", "start", "done", "crashed"}
             /\ \A j \in (k + 1)..NumFiles :
                   /\ hosts[j] = init[j]
                   /\ orig[j] = NoFile
                   /\ j \notin calls
             /\ \A j \in 1..(k - 1) :
                   /\ j \in calls
                   /\ hosts[j].content = Filtered(init[j].content, ip)
                   /\ \A n \in 1..Len(SplitLines(hosts[j].content)) :
                         ~Contains(ip, SplitLines(hosts[j].content)[n])
                   /\ orig[j].content = init[j].content

C3_Witness ==
    /\ FailedAt(2)
    /\ pc = "done"
    /\ hosts[1] # init[1]
    /\ init[3].exists
    /\ Contains(ip, init[3].content)

\* C4: when the target cannot be opened, or the read loop fails partway,
\* delete_from_file returns False, the target file is as it was before the
\* call and the temp file is gone.
C4_AtomicityOnFailure ==
    fault \in {"open", "read"} =>
        /\ hosts[host_file] = pre.target
        /\ spc # "raised"
        /\ spc = "returned" => (~status /\ ~temp_file.exists)

C4_Witness ==
    /\ spc = "returned"
    /\ fault = "read"
    /\ lineno = 2
    /\ Len(SplitLines(pre.target.content)) > 1

\* C5: when a call of delete_from_file ends, by return or by exception,
\* after success, an open or read failure, or a failure of the backup copy,
\* the replace copy or the chmod, the temp file it created no longer exists.
C5_ScratchRemoved ==
    (CallEnded /\ fault \in {"none", "open", "read", "backup_open",
                              "backup_write", "replace_open",
                              "replace_write", "chmod"})
        => ~temp_file.exists

\* C6: when a call of delete_from_file ends, whatever step failed, the
\* target holds either its complete content of before the call or the
\* complete filtered content.
C6_NeverPartial ==
    (CallEnded /\ pre.target.exists) =>
        hosts[host_file].content \in
            {pre.target.content, Filtered(pre.target.content, ip)}

\* C7: after a successful call with needle n the target holds exactly the
\* lines of the input that do not contain n as a substring, unmodified and
\* in their original order.
C7_MatchRemoval ==
    ReturnedTrue =>
        SplitLines(hosts[host_file].content)
            = LinesWithout(ip, pre.target.content)

\* C8: when the needle does not occur in the file, a successful call leaves
\* the content as it was and the backup holds that same content.
C8_NoOpSafety ==
    (ReturnedTrue /\ ~Contains(ip, pre.target.content)) =>
        /\ hosts[host_file].content = pre.target.content
        /\ orig[host_file].content = pre.target.content

\* C9: a second successful call in succession with the same address leaves
\* the content as the first call left it.
C9_Idempotence ==
    (ReturnedTrue /\ prev.ended = "returned" /\ prev.status /\ prev.ip = ip)
        => hosts[host_file].content = pre.target.content

C9_Witness ==
    /\ ReturnedTrue
    /\ prev.ended = "returned" /\ prev.status /\ prev.ip = ip
    /\ ncalls = 2
    /\ hosts[host_file].content # <<>>
    /\ hosts[host_file].content # init[host_file].content

\* C10: whenever the most recent call returned True, the backup holds
\* exactly the content the target had when that call began; an earlier
\* backup is overwritten.
C10_BackupIsPreEdit ==
    ReturnedTrue =>
        /\ orig[host_file].exists
        /\ orig[host_file].content = pre.target.content

C10_Witness ==
    /\ ReturnedTrue
    /\ pre.backup.exists
    /\ pre.backup.content # orig[host_file].content
    /\ pre.target.content # <<>>


\* C11: when the caller is not root, the argument count is not one, the
\* address fails validation ("999.999.999.999" does) or LOGFILE cannot be
\* opened, the run ends without any service command and without creating or
\* changing a target, backup or temp file.
C11_PreconditionAbort ==
    /\ (ip # <<>> /\ ip \notin Needles) => abort = "ip"
    /\ abort \in {"euid", "argc", "ip", "logfile"} =>
          /\ pc = "exit"
          /\ cmds = <<>>
          /\ hosts = init
          /\ \A i \in DOMAIN orig : orig[i] = NoFile
          /\ temp_file = NoTemp
          /\ calls = {}

C11_Witness ==
    /\ ip = Addr999
    /\ ~check_valid_ip(ip)
    /\ abort = "ip"
    /\ pc = "exit"
    /\ \E i \in DOMAIN init : init[i].exists


\* C12: no failure escapes as a crash: after a failure of the open, the
\* read loop, the backup copy, the replace copy or the chmod, no exception
\* leaves delete_from_file or main(); delete_from_file returns False with
\* the temp file removed.
C12_NoUncontrolledCrash ==
    fault \in {"open", "read", "backup_open", "backup_write", "replace_open",
               "replace_write", "chmod"} =>
        /\ spc # "raised"
        /\ pc # "crashed"
        /\ spc = "returned" => (~status /\ ~temp_file.exists)


\* Both instances of SpecConc returned True.
BothReturnedTrue ==
    /\ parked.used
    /\ ReturnedTrue
    /\ parked.loc.spc = "returned"
    /\ parked.loc.status

\* A line of the target still contains one of the two addresses.
AddressLeft ==
    \E n \in 1..Len(SplitLines(hosts[1].content)) :
       \/ Contains(ip, SplitLines(hosts[1].content)[n])
       \/ Contains(parked.loc.ip, SplitLines(hosts[1].content)[n])

\* C13: two instances running at once on one file with different addresses
\* can both return True and leave a line with one of the addresses in the
\* file (the witness); this happens only when one instance ran while the
\* other was between its first read and the end of its replace copy.
C13_UnsafeOnlyWhenConcurrent ==
    (BothReturnedTrue /\ AddressLeft) => parked.overlap

C13_Witness ==
    /\ BothReturnedTrue
    /\ AddressLeft
    /\ orig[1].content # init[1].content


\* C14: a call of denyhosts_action with 'start' or 'stop' runs the service
\* command exactly once and returns True exactly when it exited with status
\* zero; a call with any other action runs nothing and returns False.
C14_ServiceResult ==
    /\ svc.action \in {"start", "stop"} =>
          /\ Len(cmds) = svc.before + 1
          /\ cmds[Len(cmds)] = [action |-> svc.action, rc |-> svc.rc]
          /\ svc.status <=> (svc.rc = 0)
    /\ svc.action \notin {"start", "stop", "none"} =>
          /\ Len(cmds) = svc.before
          /\ ~svc.status

C14_Witness ==
    /\ svc.action = "stop"
    /\ svc.rc # 0
    /\ ~svc.status
    /\ svc.before > 0
    /\ Len(cmds) = svc.before + 1


\* C15: after every successful call the mode of the target is 0644,
\* whatever its mode was before and although the copy gave it the 0600 of
\* the temp file.
C15_PermissionRestored == ReturnedTrue => hosts[host_file].mode = Mode0644

C15_Witness ==
    /\ ReturnedTrue
    /\ pre.target.mode = Mode0600
    /\ hosts[host_file].mode = Mode0644


\* C16: at every point of a call of delete_from_file, between and during
\* the two copies included, the target or its "_orig" backup holds the
\* complete content the target had when the call began.
C16_Recoverable ==
    (spc # "idle" /\ pre.target.exists) =>
        \/ hosts[host_file].content = pre.target.content
        \/ /\ orig[host_file].exists
           /\ orig[host_file].content = pre.target.content

C16_Witness ==
    /\ spc = "raised"
    /\ fault = "replace_write"
    /\ hosts[host_file].content # pre.target.content
    /\ hosts[host_file].content # Filtered(pre.target.content, ip)
    /\ orig[host_file].content = pre.target.content


\* The positions of delete_from_file whose next step writes to the target
\* or to its backup.
AboutToWrite ==
    spc \in {"backup_open", "backup_write", "replace_open", "replace_write",
             "chmod"}

CountOf(action) == Cardinality({i \in 1..Len(cmds) : cmds[i].action = action})

\* C17: in one run every write to a target or a backup happens after the
\* 'stop' command succeeded and before 'start' is issued; 'stop' and 'start'
\* are each issued at most once, and 'start' never before 'stop'.
C17_ServiceQuiesced ==
    /\ [](/\ CountOf("stop") <= 1
          /\ CountOf("start") <= 1
          /\ \A i \in 1..Len(cmds) :
                cmds[i].action = "start" =>
                   \E j \in 1..(i - 1) : cmds[j].action = "stop"
          /\ AboutToWrite => (StopSucceeded /\ ~Issued("start"))
          /\ (hosts # init \/ \E i \in DOMAIN orig : orig[i] # NoFile)
                => StopSucceeded)
    /\ [][(hosts' # hosts \/ orig' # orig)
             => (StopSucceeded /\ ~Issued("start") /\ AboutToWrite)]_vars

C17_Witness ==
    /\ pc = "done"
    /\ Issued("start")
    /\ hosts # init
    /\ \E i \in DOMAIN orig : orig[i] # NoFile


\* C18: a call that returns False has written neither the target nor its
\* backup (a backup of an earlier call is as it was); a call that returns
\* True has completed the backup copy, the replace copy, the chmod and the
\* removal of the temp file.
C18_ResultMatchesEffect ==
    /\ (spc = "returned" /\ ~status) =>
          /\ hosts[host_file] = pre.target
          /\ orig[host_file] = pre.backup
    /\ ReturnedTrue =>
          /\ orig[host_file] = File(pre.target.content, pre.target.mode)
          /\ hosts[host_file]
                = File(Filtered(pre.target.content, ip), Mode0644)
          /\ ~temp_file.exists

C18_Witness ==
    /\ spc = "returned"
    /\ ~status
    /\ fault = "read"
    /\ pre.backup.exists
    /\ pre.backup.content # pre.target.content

====
